---- MODULE Spec2Model ----
(***************************************************************************)
(* Simulation core of the lane-runner game (src/game.js): the player       *)
(* action state machine, the progression manager, the obstacle spawner,    *)
(* the collision resolver and the animation-frame loop with its deferred   *)
(* timers.                                                                 *)
(*                                                                         *)
(* Units.  Time is counted in units of 50 ms (TicksPerSecond = 20), so     *)
(* JUMP_DURATION 0.5 s = 10, the slide timer 1000 ms = 20, the punch timer *)
(* 300 ms = 6, the shatter camera timer 100 ms = 2, debris ttl 1.0 s = 20. *)
(* Lengths along x and z are counted in 1/200 of a world unit, heights     *)
(* (y) in 1/50 of a world unit, speed in half units per second             *)
(* (RUN_SPEED_INCREASE = 0.5 is one step), so the distance of a tick,      *)
(* speed * delta, is SPEED * DELTA * 5 length units, exactly.  The score   *)
(* is distance * 0.1 and is counted in 1/2000 of a point, so that a tick   *)
(* adds exactly its distance in length units to it.  slideStartTime and    *)
(* punchStartTime are written and never read; they are left out.           *)
(***************************************************************************)
EXTENDS Integers, Sequences, FiniteSets, TLC

\* ---------------------------------------------------------------- units
TicksPerSecond == 20
ScoreUnit == 2000

\* ------------------------------------------------------- game constants
LANE_WIDTH == 1000
LANES == <<-LANE_WIDTH, 0, LANE_WIDTH>>
PLAYER_RUN_HEIGHT == 75
JUMP_HEIGHT == 225
JUMP_DURATION == 10
SLIDE_HEIGHT == 25
COLLISION_SLIDE_HEIGHT == 50
RUN_SPEED_BASE == 30
RUN_SPEED_INCREASE == 1
SPEED_STEP_TIME == 200
OBSTACLE_SPAWN_Z == -40000
OBSTACLE_CULL_Z == 2000
PHASE_DURATION_SCORE == 450
SLIDE_TIMEOUT == 20
PUNCH_TIMEOUT == 6
SHAKE_TIMEOUT == 2
SHAKE_RISE == 25
DEBRIS_TTL == 20
CLEARANCE == 25
PLAYER_WIDTH == 800
PLAYER_DEPTH == 200
OBSTACLE_WIDTH == 800
OBSTACLE_DEPTH == 200
EASE_DIVISOR == 10
\* camera.position.x is kept on a grid of half a lane width
EASE_GRID == LANE_WIDTH \div 2

\* ------------------------------------------------ bounds of the model
\* The environment: how far real time moves between two events.  JumpStep is
\* 0.3 s (the time a punch lasts, and more than half a jump); IdleStep is a
\* long absence (470 s) that takes the score past the punch_only threshold in
\* one frame; TravelStep is the time an obstacle needs to come within one
\* JumpStep of the player at the speed reached after IdleStep.
JumpStep == 6
TravelStep == 98
IdleStep == 9400
\* how many times real time is advanced in one behaviour
MaxAdvances == 4
\* how many commands (jump, slide, punch, lane moves) the player gives in one
\* behaviour
MaxInputs == 2
\* how many update calls one session of the progression manager alone gets
MaxPMCalls == 6
\* how many frames the spawner alone is run for
MaxSpawnFrames == 5
\* how many seconds the idle run of whole seconds lasts
MaxSeconds == 10
\* the run after a shatter: how far real time moves in one long step while
\* debris is in the air (0.6 s), and how many more times it moves
DebrisStep == 12
MaxDebrisSteps == 4

ObstacleTypes == {"jump", "slide", "wall", "breakable"}
StageTypes == <<"warmup", "jump_only", "slide_only", "dodge_only", "punch_only", "full_combo">>
StageIntervals == <<40, 30, 30, 25, 30, 20>>
NumStages == Len(StageTypes)

\* PROGRESSION_STAGES[i] (0-based index i), distance in score points
StageDistance(i) == PHASE_DURATION_SCORE * i
StageType(i) == StageTypes[i + 1]
StageInterval(i) == StageIntervals[i + 1]

VARIABLES
    isPaused, isGameOver, currentLane,
    isJumping, jumpStartTime, isSliding, isPunching,
    score, currentSpeed, obstacles, debrisParticles,
    timeSinceLastObstacle, currentStageIndex,
    cameraX, cameraY,
    clockElapsed, clockPending,
    timers, frames, gameLoopIdPending, overlayHidden, restartOnclick,
    op, advances, inputs, pmLog, pausedPending

vars == <<isPaused, isGameOver, currentLane, isJumping, jumpStartTime, isSliding,
          isPunching, score, currentSpeed, obstacles, debrisParticles,
          timeSinceLastObstacle, currentStageIndex, cameraX, cameraY,
          clockElapsed, clockPending, timers, frames, gameLoopIdPending,
          overlayHidden, restartOnclick, op, advances, inputs, pmLog,
          pausedPending>>

\* The program state as one record, so that a handler that calls another
\* handler (resetGame calls animate) is the composition of two operators.
Cur ==
    [isPaused |-> isPaused, isGameOver |-> isGameOver, currentLane |-> currentLane,
     isJumping |-> isJumping, jumpStartTime |-> jumpStartTime,
     isSliding |-> isSliding, isPunching |-> isPunching,
     score |-> score, currentSpeed |-> currentSpeed, obstacles |-> obstacles,
     debrisParticles |-> debrisParticles,
     timeSinceLastObstacle |-> timeSinceLastObstacle,
     currentStageIndex |-> currentStageIndex,
     cameraX |-> cameraX, cameraY |-> cameraY,
     clockElapsed |-> clockElapsed, clockPending |-> clockPending,
     timers |-> timers, frames |-> frames,
     gameLoopIdPending |-> gameLoopIdPending,
     overlayHidden |-> overlayHidden, restartOnclick |-> restartOnclick]

Assign(s) ==
    /\ isPaused' = s.isPaused
    /\ isGameOver' = s.isGameOver
    /\ currentLane' = s.currentLane
    /\ isJumping' = s.isJumping
    /\ jumpStartTime' = s.jumpStartTime
    /\ isSliding' = s.isSliding
    /\ isPunching' = s.isPunching
    /\ score' = s.score
    /\ currentSpeed' = s.currentSpeed
    /\ obstacles' = s.obstacles
    /\ debrisParticles' = s.debrisParticles
    /\ timeSinceLastObstacle' = s.timeSinceLastObstacle
    /\ currentStageIndex' = s.currentStageIndex
    /\ cameraX' = s.cameraX
    /\ cameraY' = s.cameraY
    /\ clockElapsed' = s.clockElapsed
    /\ clockPending' = s.clockPending
    /\ timers' = s.timers
    /\ frames' = s.frames
    /\ gameLoopIdPending' = s.gameLoopIdPending
    /\ overlayHidden' = s.overlayHidden
    /\ restartOnclick' = s.restartOnclick

\* ------------------------------------------------------------ THREE.Clock
\* clockElapsed is Clock.elapsedTime, clockPending the real time that has
\* passed since Clock.oldTime.  getDelta moves the pending time into the
\* elapsed time and returns it; getElapsedTime calls getDelta first.
ClockStart(s) == [s EXCEPT !.clockElapsed = 0, !.clockPending = 0]
ClockDelta(s) == s.clockPending
ClockGetDelta(s) ==
    [s EXCEPT !.clockElapsed = s.clockElapsed + s.clockPending, !.clockPending = 0]
ClockElapsedTime(s) == s.clockElapsed + s.clockPending

\* ------------------------------------------------------- ProgressionManager
\* the mutants of update: a loop instead of one step; no last-stage guard;
\* a strict comparison
ProgressionUpdateLoop(idx, sc) ==
    LET reached == {i \in idx..(NumStages - 1) : sc >= StageDistance(i) * ScoreUnit}
    IN  CHOOSE i \in reached \cup {idx} : \A j \in reached \cup {idx} : j <= i
ProgressionUpdateNoGuard(idx, sc) ==
    IF sc >= StageDistance(idx + 1) * ScoreUnit THEN idx + 1 ELSE idx
ProgressionUpdateStrict(idx, sc) ==
    IF idx < NumStages - 1 /\ sc > StageDistance(idx + 1) * ScoreUnit
    THEN idx + 1 ELSE idx
\* a mutant of update: the score is compared with the threshold of the
\* current stage
ProgressionUpdateEager(idx, sc) ==
    IF idx < NumStages - 1 /\ sc >= StageDistance(idx) * ScoreUnit
    THEN idx + 1 ELSE idx
\* update(score): the new currentStageIndex; sc is the score in 1/ScoreUnit
ProgressionUpdate(idx, sc) ==
    IF idx < NumStages - 1 /\ sc >= StageDistance(idx + 1) * ScoreUnit
    THEN idx + 1 ELSE idx

\* ----------------------------------------------------------- player actions
\* the mutants of jump/slide: the isSliding (isJumping) test left out
jumpNoSlideTest(s) ==
    IF s.isJumping \/ s.isGameOver THEN s
    ELSE [ClockGetDelta(s) EXCEPT !.isJumping = TRUE,
                                  !.jumpStartTime = ClockElapsedTime(s)]
jump(s) ==
    IF s.isJumping \/ s.isSliding \/ s.isGameOver THEN s
    ELSE [ClockGetDelta(s) EXCEPT !.isJumping = TRUE,
                                  !.jumpStartTime = ClockElapsedTime(s)]

Timer(kind, rem, y) == [kind |-> kind, rem |-> rem, y |-> y]

slide(s) ==
    IF s.isJumping \/ s.isSliding \/ s.isGameOver THEN s
    ELSE [ClockGetDelta(s) EXCEPT !.isSliding = TRUE,
              !.timers = Append(s.timers, Timer("slide", SLIDE_TIMEOUT, 0))]

\* the mutant of punch: punching only from the running pose
punchRunningOnly(s) ==
    IF s.isPunching \/ s.isJumping \/ s.isSliding \/ s.isGameOver THEN s
    ELSE [ClockGetDelta(s) EXCEPT !.isPunching = TRUE,
              !.timers = Append(s.timers, Timer("punch", PUNCH_TIMEOUT, 0))]
\* a mutant of punch: a punch in progress is not tested
punchAgain(s) ==
    IF s.isGameOver THEN s
    ELSE [ClockGetDelta(s) EXCEPT !.isPunching = TRUE,
              !.timers = Append(s.timers, Timer("punch", PUNCH_TIMEOUT, 0))]
punch(s) ==
    IF s.isPunching \/ s.isGameOver THEN s
    ELSE [ClockGetDelta(s) EXCEPT !.isPunching = TRUE,
              !.timers = Append(s.timers, Timer("punch", PUNCH_TIMEOUT, 0))]

Max(a, b) == IF a >= b THEN a ELSE b
Min(a, b) == IF a <= b THEN a ELSE b

\* the mutant of moveLane: the clamp left out
moveLaneNoClamp(s, direction) ==
    IF s.isJumping \/ s.isGameOver THEN s
    ELSE [s EXCEPT !.currentLane = s.currentLane + direction]
moveLane(s, direction) ==
    IF s.isJumping \/ s.isGameOver THEN s
    ELSE [s EXCEPT !.currentLane = Max(0, Min(2, s.currentLane + direction))]

\* ------------------------------------------------------ animation frames
\* frames counts the pending requestAnimationFrame callbacks of animate;
\* gameLoopIdPending says whether the request gameLoopId names is one of them.
RequestFrame(s) == [s EXCEPT !.frames = s.frames + 1, !.gameLoopIdPending = TRUE]
CancelFrame(s) ==
    IF s.gameLoopIdPending
    THEN [s EXCEPT !.frames = s.frames - 1, !.gameLoopIdPending = FALSE]
    ELSE s
\* the browser runs the oldest pending callback; gameLoopId names the newest
RunFrame(s) ==
    [s EXCEPT !.frames = s.frames - 1,
              !.gameLoopIdPending = IF s.frames = 1 THEN FALSE ELSE s.gameLoopIdPending]

gameOver(s) == [CancelFrame(s) EXCEPT !.isGameOver = TRUE, !.overlayHidden = FALSE]

\* ---------------------------------------------------------------- obstacles
\* shatters, fatals and punched are history fields: how often the obstacle
\* was shattered, how often it ended the run, and whether the player was
\* punching when it was marked collided.
Obstacle(lane, type) ==
    [lane |-> lane, type |-> type, z |-> OBSTACLE_SPAWN_Z, collided |-> FALSE,
     shatters |-> 0, fatals |-> 0, punched |-> FALSE]

\* createObstacle: twice the mesh position y (height 0.5, PLAYER_RUN_HEIGHT +
\* 0.5, 0.75, 1.25) and the height of its box geometry (1, 1, 1.5, 2.5)
ObstacleY2(type) ==
    CASE type = "jump" -> 50
      [] type = "slide" -> 2 * PLAYER_RUN_HEIGHT + 50
      [] type = "wall" -> 75
      [] type = "breakable" -> 125
ObstacleH(type) ==
    CASE type = "jump" -> 50
      [] type = "slide" -> 50
      [] type = "wall" -> 75
      [] type = "breakable" -> 125
IsBreakable(o) == o.type = "breakable"

\* Box3.intersectsBox on one axis, boxes given by twice their centre and
\* their size (touching boxes intersect)
Abs(a) == IF a < 0 THEN -a ELSE a
AxisOverlap(centre1x2, size1, centre2x2, size2) ==
    Abs(centre1x2 - centre2x2) <= size1 + size2

playerY(s) == IF s.isSliding THEN SLIDE_HEIGHT ELSE PLAYER_RUN_HEIGHT
playerH(s) == IF s.isSliding THEN COLLISION_SLIDE_HEIGHT ELSE PLAYER_RUN_HEIGHT

\* playerCollisionBox.intersectsBox(obstacleBox); camera.position.z is 0
Intersects(s, o) ==
    /\ AxisOverlap(2 * s.cameraX, PLAYER_WIDTH, 2 * LANES[o.lane + 1], OBSTACLE_WIDTH)
    /\ AxisOverlap(2 * playerY(s), playerH(s), ObstacleY2(o.type), ObstacleH(o.type))
    /\ AxisOverlap(0, PLAYER_DEPTH, 2 * o.z, OBSTACLE_DEPTH)

\* shatterWall for obstacles[i]
shatterWall(s, i) ==
    [s EXCEPT !.obstacles[i].collided = TRUE,
              !.obstacles[i].shatters = s.obstacles[i].shatters + 1,
              !.cameraY = s.cameraY + SHAKE_RISE,
              !.timers = Append(s.timers, Timer("shake", SHAKE_TIMEOUT, s.cameraY)),
              !.debrisParticles = Append(s.debrisParticles, DEBRIS_TTL)]

\* obstacle.userData.collided = true, at the end of the intersection branch
MarkCollided(s, i) ==
    [s EXCEPT !.obstacles[i].collided = TRUE, !.obstacles[i].punched = s.isPunching]

\* the mutants of the collision rule: a breakable obstacle shatters whether or
\* not the player punches; the collided mark is not looked at
CollideOneAlwaysShatter(s, i) ==
    LET o == s.obstacles[i] IN
    IF o.collided \/ ~Intersects(s, o) THEN s
    ELSE IF IsBreakable(o)
         THEN MarkCollided(shatterWall(s, i), i)
    ELSE IF o.type = "jump" /\ s.isJumping /\ 2 * s.cameraY > ObstacleY2(o.type) + 2 * CLEARANCE
         THEN s
    ELSE IF o.type = "slide" /\ s.isSliding /\ 2 * s.cameraY < ObstacleY2(o.type) - 2 * CLEARANCE
         THEN s
    ELSE MarkCollided([gameOver(s) EXCEPT !.obstacles[i].fatals =
                                              s.obstacles[i].fatals + 1], i)
CollideOneRecheck(s, i) ==
    LET o == s.obstacles[i] IN
    IF ~Intersects(s, o) THEN s
    ELSE IF IsBreakable(o) /\ s.isPunching
         THEN MarkCollided(shatterWall(s, i), i)
    ELSE IF o.type = "jump" /\ s.isJumping /\ 2 * s.cameraY > ObstacleY2(o.type) + 2 * CLEARANCE
         THEN s
    ELSE IF o.type = "slide" /\ s.isSliding /\ 2 * s.cameraY < ObstacleY2(o.type) - 2 * CLEARANCE
         THEN s
    ELSE MarkCollided([gameOver(s) EXCEPT !.obstacles[i].fatals =
                                              s.obstacles[i].fatals + 1], i)
\* a mutant of the collision rule: the jump-over exception not tied to the
\* kind of the obstacle
CollideOneJumpAny(s, i) ==
    LET o == s.obstacles[i] IN
    IF o.collided \/ ~Intersects(s, o) THEN s
    ELSE IF IsBreakable(o) /\ s.isPunching
         THEN MarkCollided(shatterWall(s, i), i)
    ELSE IF s.isJumping /\ 2 * s.cameraY > ObstacleY2(o.type) + 2 * CLEARANCE
         THEN s
    ELSE IF o.type = "slide" /\ s.isSliding /\ 2 * s.cameraY < ObstacleY2(o.type) - 2 * CLEARANCE
         THEN s
    ELSE MarkCollided([gameOver(s) EXCEPT !.obstacles[i].fatals =
                                              s.obstacles[i].fatals + 1], i)
\* the body of the forEach of checkCollisions for obstacles[i]
CollideOne(s, i) ==
    LET o == s.obstacles[i] IN
    IF o.collided \/ ~Intersects(s, o) THEN s
    ELSE IF IsBreakable(o) /\ s.isPunching
         THEN MarkCollided(shatterWall(s, i), i)
    ELSE IF o.type = "jump" /\ s.isJumping /\ 2 * s.cameraY > ObstacleY2(o.type) + 2 * CLEARANCE
         THEN s
    ELSE IF o.type = "slide" /\ s.isSliding /\ 2 * s.cameraY < ObstacleY2(o.type) - 2 * CLEARANCE
         THEN s
    ELSE MarkCollided([gameOver(s) EXCEPT !.obstacles[i].fatals =
                                              s.obstacles[i].fatals + 1], i)

RECURSIVE CollideFrom(_, _)
CollideFrom(s, i) ==
    IF i > Len(s.obstacles) THEN s ELSE CollideFrom(CollideOne(s, i), i + 1)
checkCollisions(s) == CollideFrom(s, 1)

\* -------------------------------------------------------------- spawner
\* getObstacleTypeForStage: the set of types the returned array can hold
\* (empty for null); full_combo returns an array of one random type
getObstacleTypeForStage(stageType) ==
    CASE stageType = "warmup" -> {}
      [] stageType = "jump_only" -> {"jump"}
      [] stageType = "slide_only" -> {"slide"}
      [] stageType = "dodge_only" -> {"wall"}
      [] stageType = "punch_only" -> {"breakable"}
      [] stageType = "full_combo" -> ObstacleTypes
      [] OTHER -> {}

\* the random draws of one generateObstacles call: two (Math.random() >= 0.6),
\* lane (Math.floor(Math.random() * 3)) and type (the type drawn by
\* getObstacleTypeForStage)
RndFor(stageType) ==
    [two : IF stageType \in {"full_combo", "dodge_only"} THEN BOOLEAN ELSE {FALSE},
     lane : IF stageType = "warmup" THEN {0} ELSE 0..2,
     type : IF getObstacleTypeForStage(stageType) = {} THEN {"jump"}
            ELSE getObstacleTypeForStage(stageType)]

\* a mutant of the lane choice: the open lane is not filtered out
blockedLanesAll(rnd) ==
    IF rnd.two THEN <<0, 1, 2>> ELSE <<rnd.lane>>
blockedLanes(rnd) ==
    IF rnd.two THEN SelectSeq(<<0, 1, 2>>, LAMBDA l : l # rnd.lane) ELSE <<rnd.lane>>

\* a mutant of the creation loop: the kind is drawn again for the second lane
createObstaclesRedrawn(obs, lanes, type) ==
    obs \o [i \in 1..Len(lanes) |->
                Obstacle(lanes[i], IF i = 1 THEN type
                                   ELSE IF type = "wall" THEN "jump" ELSE "wall")]
RECURSIVE createObstacles(_, _, _)
createObstacles(obs, lanes, type) ==
    IF lanes = <<>> THEN obs
    ELSE createObstacles(Append(obs, Obstacle(Head(lanes), type)), Tail(lanes), type)

\* spawnIntervalTime = interval / currentSpeed seconds; accumulated time acc
\* (time units) is below it iff acc * speed < interval * 2 * TicksPerSecond
BelowSpawnInterval(acc, interval, speed) ==
    acc * speed < interval * 2 * TicksPerSecond

\* a mutant of the spawner: the stage without allowed types is not left early
generateObstaclesNoNullTest(s, delta, rnd) ==
    LET acc == s.timeSinceLastObstacle + delta
    IN  IF BelowSpawnInterval(acc, StageInterval(s.currentStageIndex), s.currentSpeed)
        THEN [s EXCEPT !.timeSinceLastObstacle = acc]
        ELSE [s EXCEPT !.timeSinceLastObstacle = 0,
                       !.obstacles = createObstacles(s.obstacles, blockedLanes(rnd), rnd.type)]
\* a mutant of the spawner: the accumulator is not put back to 0 at a spawn
generateObstaclesNoReset(s, delta, rnd) ==
    LET stageType == StageType(s.currentStageIndex)
        acc == s.timeSinceLastObstacle + delta
    IN  IF getObstacleTypeForStage(stageType) = {} THEN s
        ELSE IF BelowSpawnInterval(acc, StageInterval(s.currentStageIndex), s.currentSpeed)
             THEN [s EXCEPT !.timeSinceLastObstacle = acc]
        ELSE [s EXCEPT !.timeSinceLastObstacle = acc,
                       !.obstacles = createObstacles(s.obstacles, blockedLanes(rnd), rnd.type)]
generateObstacles(s, delta, rnd) ==
    LET stageType == StageType(s.currentStageIndex)
        acc == s.timeSinceLastObstacle + delta
    IN  IF getObstacleTypeForStage(stageType) = {} THEN s
        ELSE IF BelowSpawnInterval(acc, StageInterval(s.currentStageIndex), s.currentSpeed)
             THEN [s EXCEPT !.timeSinceLastObstacle = acc]
        ELSE [s EXCEPT !.timeSinceLastObstacle = 0,
                       !.obstacles = createObstacles(s.obstacles, blockedLanes(rnd), rnd.type)]

\* ------------------------------------------------------------------ animate
\* the parabola of the jump, timeInJump in time units: JUMP_HEIGHT * 4 *
\* (progress - progress * progress) with progress = timeInJump / JUMP_DURATION
jumpY(timeInJump) ==
    ((JUMP_HEIGHT * 4) \div (JUMP_DURATION * JUMP_DURATION))
        * (timeInJump * JUMP_DURATION - timeInJump * timeInJump)

\* lines 471-488: the vertical pose of the frame
ResolvePose(s) ==
    LET timeInJump == s.clockElapsed - s.jumpStartTime
        s1 == IF ~s.isJumping THEN s
              ELSE IF timeInJump < JUMP_DURATION
                   THEN [s EXCEPT !.cameraY = PLAYER_RUN_HEIGHT + jumpY(timeInJump)]
              ELSE [s EXCEPT !.isJumping = FALSE, !.cameraY = PLAYER_RUN_HEIGHT]
    IN  IF s1.isSliding THEN [s1 EXCEPT !.cameraY = SLIDE_HEIGHT]
        ELSE IF ~s1.isJumping THEN [s1 EXCEPT !.cameraY = PLAYER_RUN_HEIGHT]
        ELSE s1

\* camera.position.x += (targetX - camera.position.x) * 0.1, the step rounded
\* away from zero to the grid
EaseStep(diff) ==
    LET cell == EASE_DIVISOR * EASE_GRID
        n == (Abs(diff) + cell - 1) \div cell
    IN  IF diff < 0 THEN -(n * EASE_GRID) ELSE n * EASE_GRID
EaseX(s) ==
    [s EXCEPT !.cameraX = s.cameraX + EaseStep(LANES[s.currentLane + 1] - s.cameraX)]

\* lines 506-513: the obstacles advance and those behind the cull plane go
MoveObstacles(obs, distance) ==
    LET moved == [i \in 1..Len(obs) |-> [obs[i] EXCEPT !.z = obs[i].z + distance]]
    IN  SelectSeq(moved, LAMBDA o : ~(o.z > OBSTACLE_CULL_Z))

\* a mutant of updateDebris: a burst whose lifetime is exactly 0 stays
updateDebrisStrict(debris, delta) ==
    SelectSeq([i \in 1..Len(debris) |-> debris[i] - delta], LAMBDA ttl : ~(ttl < 0))
\* updateDebris: the lifetimes fall by delta, the expired bursts go
updateDebris(debris, delta) ==
    SelectSeq([i \in 1..Len(debris) |-> debris[i] - delta], LAMBDA ttl : ~(ttl <= 0))

Speed(elapsed) == RUN_SPEED_BASE + (elapsed \div SPEED_STEP_TIME) * RUN_SPEED_INCREASE

\* a mutant of the distance: the delta of the frame left out
DistancePerFrame(speed, delta) == speed * 5
\* speed * delta in length units
Distance(speed, delta) == speed * delta * 5

\* a mutant of the frame: the pause is not tested
animateNoPauseTest(s0, rnd) ==
    LET s == RequestFrame(s0) IN
    IF s.isGameOver THEN s
    ELSE
    LET delta == ClockDelta(s)
        s1 == ClockGetDelta(s)
        s2 == [s1 EXCEPT !.currentSpeed = Speed(s1.clockElapsed)]
        s3 == EaseX(ResolvePose(s2))
        distance == Distance(s3.currentSpeed, delta)
        s4 == [s3 EXCEPT !.obstacles = MoveObstacles(s3.obstacles, distance),
                         !.debrisParticles = updateDebris(s3.debrisParticles, delta)]
        s5 == checkCollisions(s4)
        s6 == [s5 EXCEPT !.currentStageIndex =
                              ProgressionUpdate(s5.currentStageIndex, s5.score)]
        s7 == generateObstacles(s6, delta, rnd)
    IN  [s7 EXCEPT !.score = s7.score + distance]
\* animate(): rnd holds the random draws of generateObstacles
animate(s0, rnd) ==
    LET s == RequestFrame(s0) IN
    IF s.isPaused \/ s.isGameOver THEN s
    ELSE
    LET delta == ClockDelta(s)
        s1 == ClockGetDelta(s)
        s2 == [s1 EXCEPT !.currentSpeed = Speed(s1.clockElapsed)]
        s3 == EaseX(ResolvePose(s2))
        distance == Distance(s3.currentSpeed, delta)
        s4 == [s3 EXCEPT !.obstacles = MoveObstacles(s3.obstacles, distance),
                         !.debrisParticles = updateDebris(s3.debrisParticles, delta)]
        s5 == checkCollisions(s4)
        s6 == [s5 EXCEPT !.currentStageIndex =
                              ProgressionUpdate(s5.currentStageIndex, s5.score)]
        s7 == generateObstacles(s6, delta, rnd)
    IN  [s7 EXCEPT !.score = s7.score + distance]

NoRnd == [two |-> FALSE, lane |-> 0, type |-> "jump"]

\* the mutants of resetGame: the score, or the obstacle list, is kept
resetGameKeepScore(s) ==
    LET s1 == [s EXCEPT !.isGameOver = FALSE, !.isPaused = FALSE, !.currentLane = 1,
                        !.currentSpeed = RUN_SPEED_BASE,
                        !.currentStageIndex = 0, !.timeSinceLastObstacle = 0,
                        !.cameraX = LANES[2], !.cameraY = PLAYER_RUN_HEIGHT,
                        !.obstacles = <<>>, !.debrisParticles = <<>>,
                        !.overlayHidden = TRUE]
    IN  animate(CancelFrame(ClockStart(s1)), NoRnd)
\* a mutant of resetGame: the loop is started without the pending frame
\* being cancelled
resetGameNoCancel(s) ==
    LET s1 == [s EXCEPT !.isGameOver = FALSE, !.isPaused = FALSE, !.currentLane = 1,
                        !.score = 0, !.currentSpeed = RUN_SPEED_BASE,
                        !.currentStageIndex = 0, !.timeSinceLastObstacle = 0,
                        !.cameraX = LANES[2], !.cameraY = PLAYER_RUN_HEIGHT,
                        !.obstacles = <<>>, !.debrisParticles = <<>>,
                        !.overlayHidden = TRUE]
    IN  animate(ClockStart(s1), NoRnd)
\* resetGame(), with startGameLoop() and the animate() it calls
resetGame(s) ==
    LET s1 == [s EXCEPT !.isGameOver = FALSE, !.isPaused = FALSE, !.currentLane = 1,
                        !.score = 0, !.currentSpeed = RUN_SPEED_BASE,
                        !.currentStageIndex = 0, !.timeSinceLastObstacle = 0,
                        !.cameraX = LANES[2], !.cameraY = PLAYER_RUN_HEIGHT,
                        !.obstacles = <<>>, !.debrisParticles = <<>>,
                        !.overlayHidden = TRUE]
    IN  animate(CancelFrame(ClockStart(s1)), NoRnd)

\* the click handler of the pause button
togglePause(s) ==
    IF ~s.isPaused
    THEN [s EXCEPT !.isPaused = TRUE, !.overlayHidden = FALSE, !.restartOnclick = "resume"]
    ELSE [s EXCEPT !.isPaused = FALSE, !.overlayHidden = TRUE, !.restartOnclick = "reset"]

\* a click on the restart button: the resetGame listener of line 557, then the
\* handler in restartButton.onclick
restartClick(s) ==
    LET s1 == resetGame(s) IN
    CASE s.restartOnclick = "resume" ->
             [s1 EXCEPT !.isPaused = FALSE, !.overlayHidden = TRUE,
                        !.restartOnclick = "reset"]
      [] s.restartOnclick = "reset" -> resetGame(s1)
      [] OTHER -> s1

\* the keydown handler
keydown(s, key) ==
    IF s.isGameOver \/ s.isPaused THEN s
    ELSE CASE key = "ArrowLeft" -> moveLane(s, -1)
           [] key = "ArrowRight" -> moveLane(s, 1)
           [] key = "ArrowUp" -> jump(s)
           [] key = "ArrowDown" -> slide(s)
           [] key = "Enter" -> punch(s)
Keys == {"ArrowLeft", "ArrowRight", "ArrowUp", "ArrowDown", "Enter"}

\* a deferred callback of setTimeout runs
timeout(s, i) ==
    LET tm == s.timers[i]
        rest == [j \in 1..(Len(s.timers) - 1) |->
                    IF j < i THEN s.timers[j] ELSE s.timers[j + 1]]
        s1 == [s EXCEPT !.timers = rest]
    IN  CASE tm.kind = "slide" -> [s1 EXCEPT !.isSliding = FALSE]
          [] tm.kind = "punch" -> [s1 EXCEPT !.isPunching = FALSE]
          [] tm.kind = "shake" -> [s1 EXCEPT !.cameraY = tm.y]

\* ------------------------------------------------------------- the machine
\* the state after the kickoff: initThreeJS, createEnvironment, initGame with
\* its first animate() at elapsed time 0
Init ==
    /\ isPaused = FALSE /\ isGameOver = FALSE /\ currentLane = 1
    /\ isJumping = FALSE /\ jumpStartTime = 0
    /\ isSliding = FALSE /\ isPunching = FALSE
    /\ score = 0 /\ currentSpeed = RUN_SPEED_BASE
    /\ obstacles = <<>> /\ debrisParticles = <<>>
    /\ timeSinceLastObstacle = 0 /\ currentStageIndex = 0
    /\ cameraX = LANES[2] /\ cameraY = PLAYER_RUN_HEIGHT
    /\ clockElapsed = 0 /\ clockPending = 0
    /\ timers = <<>> /\ frames = 1 /\ gameLoopIdPending = TRUE
    /\ overlayHidden = TRUE /\ restartOnclick = "none"
    /\ op = "init" /\ advances = 0 /\ inputs = 0 /\ pmLog = <<>>
    /\ pausedPending = 0

\* pausedPending is a history variable: the part of the pending time of the
\* clock that passed while the game was paused.  It goes with the pending
\* time when a handler reads the clock (getDelta) or restarts it.
PausedKept == pausedPending' = (IF clockPending' = 0 THEN 0 ELSE pausedPending)

\* the time until the next timer is due, or d if none is due before
RECURSIVE UntilDue(_, _)
UntilDue(tms, d) ==
    IF tms = <<>> THEN d ELSE UntilDue(Tail(tms), Min(d, Head(tms).rem))

\* real time passes: by d, or up to the moment the next timer is due; a due
\* timer runs before time moves on
AdvanceTime(d) ==
    /\ advances < MaxAdvances
    /\ UntilDue(timers, d) > 0
    /\ clockPending' = clockPending + UntilDue(timers, d)
    /\ timers' = [i \in 1..Len(timers) |->
                     [timers[i] EXCEPT !.rem = timers[i].rem - UntilDue(timers, d)]]
    /\ advances' = advances + 1
    /\ pausedPending' = pausedPending + (IF isPaused THEN UntilDue(timers, d) ELSE 0)
    /\ op' = "advance"
    /\ UNCHANGED <<inputs, pmLog, isPaused, isGameOver, currentLane, isJumping, jumpStartTime,
                   isSliding, isPunching, score, currentSpeed, obstacles,
                   debrisParticles, timeSinceLastObstacle, currentStageIndex,
                   cameraX, cameraY, clockElapsed, frames, gameLoopIdPending,
                   overlayHidden, restartOnclick>>

\* the player is idle: no jump in progress, no timer pending, and the last
\* frame has just run
PlayerIdle == timers = <<>> /\ ~isJumping /\ clockPending = 0

\* Short steps at any time; the long steps while the player is idle, the
\* long absence at the start of a session.
Advance ==
    \/ AdvanceTime(JumpStep)
    \/ (PlayerIdle /\ AdvanceTime(TravelStep))
    \/ (PlayerIdle /\ clockElapsed = 0 /\ AdvanceTime(IdleStep))

\* a pending animation frame callback runs animate
Tick ==
    /\ frames > 0
    /\ \E rnd \in RndFor(StageType(ProgressionUpdate(currentStageIndex, score))) :
           Assign(animate(RunFrame(Cur), rnd))
    /\ op' = "tick"
    /\ PausedKept
    /\ UNCHANGED <<advances, inputs, pmLog>>

Timeout ==
    /\ \E i \in 1..Len(timers) : timers[i].rem = 0 /\ Assign(timeout(Cur, i))
    /\ op' = "timeout"
    /\ PausedKept
    /\ UNCHANGED <<advances, inputs, pmLog>>

\* a command of the player: handler h of the record of the state
Input(next, name) ==
    /\ inputs < MaxInputs
    /\ Assign(next)
    /\ op' = name
    /\ inputs' = inputs + 1
    /\ PausedKept
    /\ UNCHANGED <<advances, pmLog>>

JumpButton == Input(jump(Cur), "jump")
SlideButton == Input(slide(Cur), "slide")
PunchButton == Input(punch(Cur), "punch")
LeftButton == Input(moveLane(Cur, -1), "left")
RightButton == Input(moveLane(Cur, 1), "right")
KeyDown == \E key \in Keys : Input(keydown(Cur, key), key)
\* the pause button, or the Escape key, which clicks it
PauseButton ==
    /\ Assign(togglePause(Cur))
    /\ op' = "pause"
    /\ PausedKept
    /\ UNCHANGED <<advances, inputs, pmLog>>
\* the restart button is on the game-over screen
RestartButton ==
    /\ ~overlayHidden
    /\ Assign(restartClick(Cur))
    /\ op' = "restart"
    /\ PausedKept
    /\ UNCHANGED <<advances, inputs, pmLog>>

\* The run with the pose commands: the jump, slide and punch buttons, the
\* frames, the timers and real time.
Next ==
    \/ Advance
    \/ Tick
    \/ Timeout
    \/ JumpButton
    \/ SlideButton
    \/ PunchButton
    \/ RestartButton

Spec == Init /\ [][Next]_vars

\* The run with the lane commands: the left and right buttons and the jump
\* button (a lane move depends on isJumping).  No timer is ever started.
NextLanes ==
    \/ Advance
    \/ Tick
    \/ LeftButton
    \/ RightButton
    \/ JumpButton
    \/ RestartButton

SpecLanes == Init /\ [][NextLanes]_vars

\* The run with every button, the keyboard and the pause button, in the
\* warm-up stage: real time moves in short steps only.
NextUI ==
    \/ AdvanceTime(JumpStep)
    \/ Tick
    \/ Timeout
    \/ JumpButton
    \/ SlideButton
    \/ PunchButton
    \/ LeftButton
    \/ RightButton
    \/ KeyDown
    \/ PauseButton
    \/ RestartButton

SpecUI == Init /\ [][NextUI]_vars

\* ------------------------------------------- the progression manager alone
\* The scores handed to update, in 1/ScoreUnit of a point: the thresholds,
\* their neighbours, and 5000 points.
PMScores ==
    {0, 449 * ScoreUnit, 450 * ScoreUnit - 1, 450 * ScoreUnit, 900 * ScoreUnit,
     1350 * ScoreUnit, 1800 * ScoreUnit, 2250 * ScoreUnit - 1, 2250 * ScoreUnit,
     5000 * ScoreUnit}

programVars ==
    <<isPaused, isGameOver, currentLane, isJumping, jumpStartTime, isSliding,
      isPunching, score, currentSpeed, obstacles, debrisParticles,
      timeSinceLastObstacle, currentStageIndex, cameraX, cameraY,
      clockElapsed, clockPending, timers, frames, gameLoopIdPending,
      overlayHidden, restartOnclick>>

\* progressionManager.update(sc), the scores of a session not decreasing;
\* pmLog is the list of the scores the manager of this session was given
PMUpdate ==
    /\ Len(pmLog) < MaxPMCalls
    /\ \E sc \in PMScores :
           /\ IF pmLog = <<>> THEN TRUE ELSE sc >= pmLog[Len(pmLog)]
           /\ currentStageIndex' = ProgressionUpdate(currentStageIndex, sc)
           /\ pmLog' = Append(pmLog, sc)
    /\ op' = "update"
    /\ UNCHANGED <<isPaused, isGameOver, currentLane, isJumping, jumpStartTime,
                   isSliding, isPunching, score, currentSpeed, obstacles,
                   debrisParticles, timeSinceLastObstacle, cameraX, cameraY,
                   clockElapsed, clockPending, timers, frames, gameLoopIdPending,
                   overlayHidden, restartOnclick, advances, inputs, pausedPending>>

\* progressionManager = new ProgressionManager(): a new session
PMNew ==
    /\ pmLog # <<>>
    /\ currentStageIndex' = 0
    /\ pmLog' = <<>>
    /\ op' = "new"
    /\ UNCHANGED <<isPaused, isGameOver, currentLane, isJumping, jumpStartTime,
                   isSliding, isPunching, score, currentSpeed, obstacles,
                   debrisParticles, timeSinceLastObstacle, cameraX, cameraY,
                   clockElapsed, clockPending, timers, frames, gameLoopIdPending,
                   overlayHidden, restartOnclick, advances, inputs, pausedPending>>

NextPM ==
    \/ PMUpdate
    \/ PMNew

SpecPM == Init /\ [][NextPM]_vars

\* ------------------------------------------------------- the spawner alone
\* The frames as the progression manager and the spawner see them: the score
\* (0, or 5000 points, past every threshold) and the delta of the frame (none,
\* a short step or a long one).
SpawnScores == {0, 5000 * ScoreUnit}
SpawnDeltas == {0, JumpStep, TravelStep}

\* progressionManager.update(score); generateObstacles(delta), as animate
\* calls them, with the score at sc
SpawnFrame ==
    /\ advances < MaxSpawnFrames
    /\ \E sc \in SpawnScores, delta \in SpawnDeltas :
           /\ sc >= score
           /\ \E rnd \in RndFor(StageType(ProgressionUpdate(currentStageIndex, sc))) :
                  Assign(generateObstacles(
                      [Cur EXCEPT !.score = sc,
                                  !.currentStageIndex =
                                      ProgressionUpdate(currentStageIndex, sc)],
                      delta, rnd))
    /\ op' = "spawn"
    /\ advances' = advances + 1
    /\ UNCHANGED <<inputs, pmLog, pausedPending>>

NextSpawn == SpawnFrame

SpecSpawn == Init /\ [][NextSpawn]_vars

\* ------------------------------------------------ the run in whole seconds
\* One second of real time passes between two frames, when no timer is
\* pending.
AdvanceSecond ==
    /\ advances < MaxSeconds
    /\ clockPending = 0
    /\ timers = <<>>
    /\ clockPending' = TicksPerSecond
    /\ advances' = advances + 1
    /\ op' = "second"
    /\ UNCHANGED <<inputs, pmLog, pausedPending, timers, isPaused, isGameOver, currentLane, isJumping,
                   jumpStartTime, isSliding, isPunching, score, currentSpeed, obstacles,
                   debrisParticles, timeSinceLastObstacle, currentStageIndex,
                   cameraX, cameraY, clockElapsed, frames, gameLoopIdPending,
                   overlayHidden, restartOnclick>>

\* The warm-up run with frames a second apart and the lane buttons.
NextSeconds ==
    \/ AdvanceSecond
    \/ Tick
    \/ LeftButton
    \/ RightButton

SpecSeconds == Init /\ [][NextSeconds]_vars

\* ------------------------------------------------------------- properties
\* C1: right after a restart the score is 0, the stage index 0, the speed the
\* base speed, the spawn accumulator 0, there are no obstacles and no debris,
\* the lane is 1, and the game is neither paused nor over.
C1_RestartResetsSession ==
    op = "restart" =>
        /\ score = 0
        /\ currentStageIndex = 0
        /\ currentSpeed = RUN_SPEED_BASE
        /\ timeSinceLastObstacle = 0
        /\ obstacles = <<>>
        /\ debrisParticles = <<>>
        /\ currentLane = 1
        /\ ~isPaused
        /\ ~isGameOver
\* a restart of a run that took four steps of real time and two commands and
\* ended (the restart button shows on the game-over screen only)
C1_Witness == op = "restart" /\ advances = 4 /\ inputs = 2 /\ clockElapsed = 0

\* C2: right after a restart the player is in the running pose and is not
\* punching: isJumping, isSliding and isPunching are all false.
C2_RestartResetsPlayer ==
    op = "restart" => ~isJumping /\ ~isSliding /\ ~isPunching

\* C3: within a session the stage index never decreases under update, never
\* exceeds the last index 5, and stays at 5 once it is there.
C3_StageMonotone ==
    [][op' = "update" =>
          /\ currentStageIndex' >= currentStageIndex
          /\ currentStageIndex' <= 5
          /\ (currentStageIndex = 5 => currentStageIndex' = 5)]_vars
\* six updates with 5000 points: the sixth one finds the manager at stage 5
C3_Witness ==
    /\ pmLog = [i \in 1..6 |-> 5000 * ScoreUnit]
    /\ currentStageIndex = 5

\* C4: one update raises the stage index by at most one whatever the score;
\* update(5000) from stage 0 gives stage 1.
C4_OneStagePerUpdate ==
    /\ [][op' = "update" => currentStageIndex' <= currentStageIndex + 1]_vars
    /\ [](pmLog = <<5000 * ScoreUnit>> => currentStageIndex = 1)
C4_Witness == pmLog = <<5000 * ScoreUnit>> /\ currentStageIndex = 1

\* C5: with the thresholds 0, 450, 900, 1350, 1800, 2250, update(score) at
\* stage i moves to stage i + 1 iff i < 5 and score >= threshold[i + 1], and
\* leaves the stage alone otherwise; update(449) at stage 0 leaves stage 0,
\* update(450) then moves to stage 1, and a further update(450) leaves stage 1.
C5_ExactThreshold ==
    /\ [][op' = "update" =>
            LET threshold == <<0, 450, 900, 1350, 1800, 2250>>
                sc == pmLog'[Len(pmLog')]
                i == currentStageIndex
            IN  currentStageIndex' =
                    IF i < 5 /\ sc >= threshold[i + 2] * ScoreUnit THEN i + 1 ELSE i]_vars
    /\ [](pmLog = <<449 * ScoreUnit>> => currentStageIndex = 0)
    /\ [](pmLog = <<449 * ScoreUnit, 450 * ScoreUnit>> => currentStageIndex = 1)
    /\ [](pmLog = <<449 * ScoreUnit, 450 * ScoreUnit, 450 * ScoreUnit>>
              => currentStageIndex = 1)
C5_Witness ==
    /\ pmLog = <<449 * ScoreUnit, 450 * ScoreUnit, 450 * ScoreUnit>>
    /\ currentStageIndex = 1

\* C6: the player is never jumping and sliding at once.
C6_OnePose == ~(isJumping /\ isSliding)
\* a jump was asked for in the middle of a slide
C6_Witness == op \in {"jump", "ArrowUp"} /\ isSliding /\ ~isJumping

\* C7: jump() and slide() called while the player is jumping or sliding, or
\* while the game is over, change nothing of the program state.
C7_RejectedJumpSlide ==
    [][(op' \in {"jump", "slide"} /\ (isJumping \/ isSliding \/ isGameOver))
          => UNCHANGED programVars]_vars
\* slide() was called in the middle of a jump
C7_Witness == op = "slide" /\ isJumping /\ ~isSliding /\ ~isGameOver

PunchTimers(tms) == Len(SelectSeq(tms, LAMBDA tm : tm.kind = "punch"))

\* C8: punch() called while not punching and not game-over sets isPunching
\* and starts one punch timer whatever the pose, and changes none of
\* isJumping, isSliding and the lane; called while punching or game-over it
\* changes nothing of the program state.
C8_PunchIndependent ==
    [][op' = "punch" =>
          IF isPunching \/ isGameOver
          THEN UNCHANGED programVars
          ELSE /\ isPunching'
               /\ UNCHANGED <<isJumping, isSliding, currentLane>>
               /\ PunchTimers(timers') = PunchTimers(timers) + 1]_vars
\* punch() was called in the middle of a jump and taken
C8_Witness == op = "punch" /\ isJumping /\ isPunching /\ ~isGameOver

\* C9: the lane is always 0, 1 or 2; a lane move while jumping or game-over
\* leaves it alone, a move past lane 0 or lane 2 leaves it at that lane, and
\* any other move changes it by the direction.
C9_LaneClamped ==
    /\ [](currentLane \in {0, 1, 2})
    /\ [][op' \in {"left", "right"} =>
            LET target == currentLane + (IF op' = "left" THEN -1 ELSE 1)
            IN  currentLane' =
                    IF isJumping \/ isGameOver THEN currentLane
                    ELSE IF target > 2 THEN 2
                    ELSE IF target < 0 THEN 0
                    ELSE target]_vars
\* two moves to the right in a row, with no time passing: the second one
\* finds the player at lane 2
C9_Witness ==
    /\ op = "right" /\ currentLane = 2 /\ inputs = 2 /\ advances = 0
    /\ timers = <<>> /\ ~isJumping

\* C10: a breakable obstacle that intersects the player in a tick is marked in
\* that tick; if the player was punching then, the obstacle is never fatal,
\* and if not, the game is over.
C10_BreakablePunch ==
    \A i \in 1..Len(obstacles) :
        LET o == obstacles[i] IN
        IsBreakable(o) =>
            /\ (op = "tick" /\ Intersects(Cur, o)) => o.collided
            /\ o.collided =>
                   /\ (o.punched \/ o.shatters > 0) => o.fatals = 0
                   /\ ~o.punched => isGameOver
\* the punch ended after the wall was shattered, and a frame ran with the
\* shattered wall still in the player's volume
C10_Witness ==
    /\ op = "tick" /\ ~isPunching /\ ~isGameOver
    /\ \E i \in 1..Len(obstacles) :
           /\ IsBreakable(obstacles[i]) /\ Intersects(Cur, obstacles[i])
           /\ obstacles[i].punched /\ obstacles[i].shatters = 1

\* C11: a breakable obstacle struck while the player is punching is removed
\* from the obstacle list in that tick (marked collided, one debris burst of
\* full lifetime added): no obstacle of the list is a shattered one.
C11_ShatteredRemoved ==
    \A i \in 1..Len(obstacles) :
        ~(IsBreakable(obstacles[i]) /\ obstacles[i].shatters > 0)

\* C12: after a tick in which a jump obstacle intersects the player while the
\* player is jumping with the camera above the obstacle's position plus the
\* clearance, the game is not over and the obstacle is marked collided.
C12_JumpOverResolved ==
    op = "tick" =>
        \A i \in 1..Len(obstacles) :
            LET o == obstacles[i] IN
            (/\ o.type = "jump"
             /\ Intersects(Cur, o) /\ isJumping
             /\ 2 * cameraY > ObstacleY2(o.type) + 2 * CLEARANCE)
                => ~isGameOver /\ o.collided

\* C13: after a tick in which a wall obstacle intersects the player, the game
\* is over and the wall has ended the run, whatever the pose of the player
\* and whether or not the player is punching.
C13_WallAlwaysFatal ==
    op = "tick" =>
        \A i \in 1..Len(obstacles) :
            LET o == obstacles[i] IN
            (o.type = "wall" /\ Intersects(Cur, o))
                => isGameOver /\ o.collided /\ o.fatals > 0
\* a wall met in the middle of a jump, with a punch under way
C13_Witness ==
    /\ op = "tick" /\ isJumping /\ isPunching /\ isGameOver
    /\ cameraY > PLAYER_RUN_HEIGHT
    /\ \E i \in 1..Len(obstacles) :
           /\ obstacles[i].type = "wall" /\ Intersects(Cur, obstacles[i])
           /\ obstacles[i].fatals = 1

\* the obstacles the frame just run has appended to the list
Spawned == SubSeq(obstacles', Len(obstacles) + 1, Len(obstacles'))

\* C14: a frame of the spawner creates at most 2 obstacles, in distinct lanes
\* of {0,1,2} (so one lane stays open), and 2 only when the stage is
\* dodge_only or full_combo.
C14_OneLaneOpen ==
    [][op' = "spawn" =>
          /\ Len(Spawned) <= 2
          /\ \A i \in 1..Len(Spawned) : Spawned[i].lane \in {0, 1, 2}
          /\ \A i, j \in 1..Len(Spawned) : i # j => Spawned[i].lane # Spawned[j].lane
          /\ \E l \in {0, 1, 2} : \A i \in 1..Len(Spawned) : Spawned[i].lane # l
          /\ Len(Spawned) = 2 =>
                 StageTypes[currentStageIndex' + 1] \in {"dodge_only", "full_combo"}]_vars
\* three frames, one per stage, the third one a two-lane spawn of dodge_only
C14_Witness ==
    /\ op = "spawn" /\ advances = 3 /\ currentStageIndex = 3
    /\ Len(obstacles) = 4
    /\ obstacles[3].type = "wall" /\ obstacles[4].type = "wall"
    /\ obstacles[3].lane # obstacles[4].lane

\* C15: the kind of every obstacle a frame creates is allowed by the stage of
\* that frame: none in warmup, jump in jump_only, slide in slide_only, wall
\* in dodge_only, breakable in punch_only, any of the four in full_combo.
C15_KindAllowedByStage ==
    [][op' = "spawn" =>
          LET allowed == <<{}, {"jump"}, {"slide"}, {"wall"}, {"breakable"},
                           {"jump", "slide", "wall", "breakable"}>>
          IN  \A i \in 1..Len(Spawned) :
                  Spawned[i].type \in allowed[currentStageIndex' + 1]]_vars
\* five long frames, one per stage from jump_only to full_combo, each with a
\* spawn of one obstacle
C15_Witness ==
    /\ op = "spawn" /\ advances = 5 /\ currentStageIndex = 5
    /\ Len(obstacles) = 5
    /\ [i \in 1..5 |-> obstacles[i].type] = <<"jump", "slide", "wall", "breakable", "slide">>

\* C16: the obstacles one frame creates all have the same kind.
C16_OneKindPerSpawn ==
    [][op' = "spawn" =>
          \A i, j \in 1..Len(Spawned) : Spawned[i].type = Spawned[j].type]_vars
\* five long frames with the most obstacles there can be: the fifth is a
\* two-lane spawn of full_combo
C16_Witness ==
    /\ op = "spawn" /\ advances = 5 /\ currentStageIndex = 5
    /\ Len(obstacles) = 7
    /\ obstacles[6].type = "breakable" /\ obstacles[7].type = "breakable"
    /\ obstacles[6].lane # obstacles[7].lane

\* C17: after ten frames of one second each from a fresh session, with no
\* command given, the score is exactly 15 points and the stage is warmup.
C17_TenSecondsScore ==
    (op = "tick" /\ advances = 10 /\ clockElapsed = 10 * TicksPerSecond /\ inputs = 0)
        => score = 15 * ScoreUnit /\ currentStageIndex = 0

NextPause ==
    \/ Advance
    \/ Tick
    \/ Timeout
    \/ SlideButton
    \/ PauseButton
    \/ RestartButton
SpecPause == Init /\ [][NextPause]_vars

\* C19: a frame that starts while the session is paused or game-over changes
\* no simulation state: score, speed, stage, spawn accumulator, obstacles,
\* debris, and the pose and lane of the player stay as they were.
C19_IdleFrameInert ==
    [][(op' = "tick" /\ (isPaused \/ isGameOver))
           => UNCHANGED <<score, currentSpeed, currentStageIndex,
                          timeSinceLastObstacle, obstacles, debrisParticles,
                          isJumping, jumpStartTime, isSliding, isPunching,
                          currentLane, cameraX, cameraY>>]_vars
\* a frame has run in the pause with time pending on the clock, obstacles on
\* the track and the player in a slide
C19_Witness ==
    /\ op = "tick" /\ isPaused /\ ~isGameOver
    /\ clockPending > 0
    /\ obstacles # <<>>
    /\ isSliding

\* C20: once a fatal collision has set game over the simulation is halted
\* until restart: the frame of the collision leaves the score, the stage and
\* the spawn accumulator as it found them (all three are written only after
\* the collision test), and no later step but a restart changes the score,
\* the stage, the accumulator, the obstacles or the debris.
C20_HaltedAfterFatal ==
    [][/\ (op' = "tick" /\ ~isGameOver /\ isGameOver')
              => /\ score' = score
                 /\ currentStageIndex' = currentStageIndex
                 /\ timeSinceLastObstacle' = timeSinceLastObstacle
       /\ (isGameOver /\ op' # "restart")
              => UNCHANGED <<score, currentStageIndex, timeSinceLastObstacle,
                             obstacles, debrisParticles>>]_vars

\* C21: the slide-end and punch-end timers respect the pause: a slide or a
\* punch in progress while the game is paused is still in progress after any
\* step that leaves the game paused.
C21_TimersRespectPause ==
    [][(isPaused /\ isPaused')
           => /\ isSliding => isSliding'
              /\ isPunching => isPunching']_vars

\* C22: a restart invalidates the deferred timers of the session before it: a
\* callback that runs right after a restart (it was scheduled before it, no
\* command came between) changes neither isSliding nor isPunching nor the
\* height of the player.
C22_RestartInvalidatesTimers ==
    [][(op = "restart" /\ op' = "timeout")
           => UNCHANGED <<isSliding, isPunching, cameraY>>]_vars

\* C23: while the player is jumping, the height a frame leaves the player at
\* is the run height plus JUMP_HEIGHT * 4 * (p - p^2), p the fraction of the
\* jump that has passed, and that offset is never negative: the player is
\* never below the run height.  resetGame ends with a frame too.
C23_JumpArcNonNegative ==
    (op \in {"tick", "restart"} /\ isJumping /\ ~isPaused /\ ~isGameOver)
        => /\ cameraY = PLAYER_RUN_HEIGHT + jumpY(clockElapsed - jumpStartTime)
           /\ cameraY >= PLAYER_RUN_HEIGHT

\* C24: every jump ends: a player seen jumping after a frame is within
\* JUMP_DURATION of session time after the jump() command, that is, the jump
\* started at or before the elapsed time of the frame and less than
\* JUMP_DURATION before it.
C24_JumpEnds ==
    (op = "tick" /\ isJumping /\ ~isPaused)
        => /\ jumpStartTime <= clockElapsed
           /\ clockElapsed < jumpStartTime + JUMP_DURATION

\* C25: pausing suspends simulated time: the time spent paused is no part of
\* the delta of the first frame after the pause, so that frame moves the
\* score, the elapsed run time and the debris lifetimes by the unpaused part
\* of the pending time alone.
C25_PauseSuspendsTime ==
    [][(op' = "tick" /\ ~isPaused /\ ~isGameOver)
           => /\ score' = score + currentSpeed' * (clockPending - pausedPending) * 5
              /\ clockElapsed' = clockElapsed + (clockPending - pausedPending)]_vars

\* C26: resume is not restart: leaving the pause by the pause button (or
\* Escape, which clicks it) or by the RESUME button of the pause screen leaves
\* the score, the stage, the obstacles, the debris and the lane as they were.
C26_ResumeKeepsSession ==
    [][(isPaused /\ ~isGameOver /\ restartOnclick = "resume"
            /\ op' \in {"pause", "restart"} /\ ~isPaused')
           => UNCHANGED <<score, currentStageIndex, obstacles, debrisParticles,
                          currentLane>>]_vars

\* C27: in a spawning stage an active frame adds its delta to the accumulator;
\* obstacles are created in the frame if and only if the accumulator is then
\* at least stage.interval / currentSpeed, and then the accumulator is put
\* back to exactly 0; otherwise the accumulator keeps the sum and no obstacle
\* is created.  The obstacles created in a frame are those at the spawn plane
\* after it (the older ones have moved, or none has gone when no time passed).
C27_SpawnTiming ==
    [][(op' = "tick" /\ ~isPaused /\ ~isGameOver
            /\ StageTypes[currentStageIndex' + 1] # "warmup")
           => LET acc == timeSinceLastObstacle + clockPending
                  due == acc * currentSpeed'
                             >= StageIntervals[currentStageIndex' + 1] * 2 * TicksPerSecond
                  created ==
                      IF clockPending > 0
                      THEN Cardinality({i \in 1..Len(obstacles') :
                                            obstacles'[i].z = OBSTACLE_SPAWN_Z})
                      ELSE Len(obstacles') - Len(obstacles)
              IN  /\ due => timeSinceLastObstacle' = 0 /\ created >= 1
                  /\ ~due => timeSinceLastObstacle' = acc /\ created = 0]_vars
\* the second frame after the long absence: the jump_only stage, 4.9 s on the
\* accumulator at speed 38.5, one obstacle created and the accumulator at 0
C27_Witness ==
    /\ op = "tick" /\ advances = 2 /\ currentStageIndex = 1
    /\ clockElapsed = IdleStep + TravelStep
    /\ Len(obstacles) = 1 /\ obstacles[1].z = OBSTACLE_SPAWN_Z
    /\ timeSinceLastObstacle = 0

\* ------------------------------------------------- the run after a shatter
\* Real time goes on passing while debris is in the air, in short or long
\* steps, after the steps that brought the player to the obstacle.
AdvanceDebris ==
    /\ debrisParticles # <<>>
    /\ advances >= MaxAdvances
    /\ advances < MaxAdvances + MaxDebrisSteps
    /\ \E d \in {JumpStep, DebrisStep} :
           /\ UntilDue(timers, d) > 0
           /\ clockPending' = clockPending + UntilDue(timers, d)
           /\ timers' = [i \in 1..Len(timers) |->
                            [timers[i] EXCEPT !.rem = timers[i].rem - UntilDue(timers, d)]]
    /\ advances' = advances + 1
    /\ op' = "advance"
    /\ UNCHANGED <<inputs, pmLog, pausedPending, isPaused, isGameOver, currentLane,
                   isJumping, jumpStartTime, isSliding, isPunching, score, currentSpeed,
                   obstacles, debrisParticles, timeSinceLastObstacle, currentStageIndex,
                   cameraX, cameraY, clockElapsed, frames, gameLoopIdPending,
                   overlayHidden, restartOnclick>>

NextDebris ==
    \/ Advance
    \/ AdvanceDebris
    \/ Tick
    \/ Timeout
    \/ PunchButton

SpecDebris == Init /\ [][NextDebris]_vars

\* C28: a debris burst is created with lifetime 1.0; an active frame subtracts
\* its delta from every burst and removes, in that very frame, the bursts
\* whose lifetime has become <= 0, and the bursts it creates come after the
\* survivors; no other step but a restart touches the debris.  Hence every
\* burst in the set has a lifetime in (0, 1].
C28_DebrisLifecycle ==
    [][/\ \A i \in 1..Len(debrisParticles') :
              debrisParticles'[i] > 0 /\ debrisParticles'[i] <= DEBRIS_TTL
       /\ (op' = "tick" /\ ~isPaused /\ ~isGameOver)
              => LET surv == SelectSeq(debrisParticles, LAMBDA ttl : ttl > clockPending)
                 IN  /\ Len(debrisParticles') >= Len(surv)
                     /\ \A k \in 1..Len(debrisParticles') :
                            debrisParticles'[k] =
                                IF k <= Len(surv) THEN surv[k] - clockPending
                                ELSE DEBRIS_TTL
       /\ (op' # "restart" /\ ~(op' = "tick" /\ ~isPaused /\ ~isGameOver))
              => debrisParticles' = debrisParticles]_vars
\* the burst of the shattered wall has gone in the frame in which the frames
\* since the shatter sum to exactly 1.0 s (0.1 s, 0.3 s and 0.6 s)
C28_Witness ==
    /\ op = "tick" /\ ~isGameOver
    /\ advances = MaxAdvances + 3
    /\ clockElapsed = IdleStep + 2 * TravelStep + JumpStep + DEBRIS_TTL
    /\ debrisParticles = <<>>

\* C29: an obstacle has at most one collision outcome: over its whole life it
\* is shattered or ends the run at most once in all, and it is marked collided
\* from then on, so no later frame in which it still overlaps the player ends
\* the run or makes a second burst of debris.
C29_OneOutcome ==
    \A i \in 1..Len(obstacles) :
        LET o == obstacles[i] IN
        /\ o.shatters + o.fatals <= 1
        /\ o.shatters + o.fatals = 1 => o.collided
\* a frame has run after the punch that shattered the wall was over: the wall
\* still overlaps the player, who no longer punches, and the run goes on
C29_Witness ==
    /\ op = "tick" /\ ~isPunching /\ ~isGameOver
    /\ \E i \in 1..Len(obstacles) :
           LET o == obstacles[i] IN
           /\ IsBreakable(o) /\ o.collided /\ o.punched /\ o.shatters = 1
           /\ Intersects(Cur, o)

\* C30: at the end of every frame and after every restart the score is at
\* least the threshold of the current stage: the stage never runs ahead of
\* the score.
C30_StageBehindScore ==
    op \in {"tick", "restart"}
        => score >= PHASE_DURATION_SCORE * currentStageIndex * ScoreUnit
\* a frame ends in the punch_only stage with the score between its threshold
\* and the next
C30_Witness ==
    /\ op = "tick" /\ currentStageIndex = 4
    /\ score >= StageDistance(4) * ScoreUnit
    /\ score < StageDistance(5) * ScoreUnit

\* C31: at most one tick loop exists: in every reachable state at most one
\* animation-frame callback of animate is pending, and it is the one
\* gameLoopId names, whatever the order of restarts (from the pause, from the
\* game-over screen, twice by one click), game over and frames.
C31_OneLoop ==
    /\ frames \in {0, 1}
    /\ gameLoopIdPending <=> frames = 1
\* a restart from the pause, where a frame was pending: one frame is pending
\* after it
C31_Witness ==
    /\ op = "restart" /\ frames = 1 /\ gameLoopIdPending
    /\ restartOnclick = "reset" /\ ~isPaused /\ ~isGameOver

SlideTimers(tms) == Len(SelectSeq(tms, LAMBDA tm : tm.kind = "slide"))

\* C32: each slide or punch in progress has exactly one pending end timer:
\* isSliding holds iff one slide-end timer is pending, isPunching iff one
\* punch-end timer is pending, never more than one of either; and a slide or
\* punch starts with no older end timer pending and its own timer at its full
\* delay, so no timer cuts short an action started after the one that
\* scheduled it.
C32_OneEndTimer ==
    [][/\ SlideTimers(timers') = (IF isSliding' THEN 1 ELSE 0)
       /\ PunchTimers(timers') = (IF isPunching' THEN 1 ELSE 0)
       /\ (~isSliding /\ isSliding')
              => /\ SlideTimers(timers) = 0
                 /\ \E i \in 1..Len(timers') :
                        timers'[i].kind = "slide" /\ timers'[i].rem = SLIDE_TIMEOUT
       /\ (~isPunching /\ isPunching')
              => /\ PunchTimers(timers) = 0
                 /\ \E i \in 1..Len(timers') :
                        timers'[i].kind = "punch" /\ timers'[i].rem = PUNCH_TIMEOUT]_vars
\* a restart with a punch in progress: the new session starts punching, with
\* the one timer of that punch pending
C32_Witness ==
    /\ op = "restart" /\ isPunching
    /\ PunchTimers(timers) = 1

\* C33: while the game is paused the commands of the player have no effect: a
\* jump, slide, punch or lane move given during the pause, by a key or by an
\* on-screen button, leaves isJumping, isSliding, isPunching and the lane as
\* they were.
C33_PausedCommandsInert ==
    [][(isPaused /\ op' \in {"jump", "slide", "punch", "left", "right"} \cup Keys)
           => UNCHANGED <<isJumping, isSliding, isPunching, currentLane>>]_vars

====
